---------------------------- MODULE Spec2Model ----------------------------
(***************************************************************************)
(* The sender-side receipt pool of edgeandnode/receipts (src/src/pool.rs), *)
(* the receiver's voucher builder (src/src/voucher.rs) and the row         *)
(* iterator of the zkp (src/src/zkp/iter.rs).                              *)
(*                                                                         *)
(* A ReceiptPool holds a Vec of Transfers.  commit borrows a receipt from  *)
(* one transfer and returns a commitment; release hands a commitment back  *)
(* with the status of the query it paid for.                               *)
(*                                                                         *)
(* Numbers are scaled: U256 is an unsigned integer of U256_BITS bits whose *)
(* + and - panic on overflow (primitive_types::U256), and the receipt-id   *)
(* limits keep their order 0 < LOW_RECEIPT_CAPACITY < MAX_RECEIPT_ID.      *)
(***************************************************************************)
EXTENDS Integers, Sequences, FiniteSets, Bags, TLC

(***************************************************************************)
(* Bounds of the model.                                                    *)
(***************************************************************************)
NumTransferIds  == 2   \* transfer ids the callers of Spec install
MaxCollateral   == 2   \* largest collateral and fee the callers of Spec pass
LatchCollateral == 4   \* largest collateral and fee the caller of SpecLatch passes
MaxOutstanding  == 2   \* commitments in flight (returned, not yet released)
MaxInstalls     == 2   \* installations of transfers in one run
MaxReceipts     == 2   \* receipt records in the data of one receipts_to_voucher call
MaxRows         == 3   \* receipts in the input of one rows call

(***************************************************************************)
(* Program constants (scaled, see above).                                  *)
(***************************************************************************)
U256_BITS            == 3
MAX_RECEIPT_ID       == 2
LOW_RECEIPT_CAPACITY == 1
RECEIPT_ID_LEN       == 2     \* bytes of a receiver-side ReceiptId (scaled)
SIZE                 == 112   \* bytes of one receipt record of the voucher input
MAX_ID               == 4     \* zkp Receipt::MAX_ID (scaled)

U256_MAX == 2^U256_BITS - 1

TransferIds == 1..NumTransferIds
Collaterals == 0..MaxCollateral
Fees        == 0..MaxCollateral
LatchIds         == {1}
LatchCollaterals == 0..LatchCollateral
LatchFees        == 0..LatchCollateral
\* Secret keys: one per installation of a transfer id ("Each transfer must have
\* a globally unique ppk pair").
Signers     == TransferIds \X (1..MaxInstalls)
QueryStatus == {"Success", "Failure", "Unknown"}

VARIABLES
    transfers,   \* ReceiptPool.transfers: the Vec<Transfer>
    ret,         \* what the last call returned (or that it panicked)
    borrowed,    \* bag of the commitments returned by commit and not yet
                 \* passed to release, each with the installation that emitted it
    installs,    \* history: per transfer id, how often add_transfer installed it
    warnings,    \* history: per transfer id, the commits of its current
                 \* installation that returned low_collateral_warning = true
    absorbed,    \* history: per transfer id, the fees of commitments of an
                 \* earlier installation released into the current one
    voucher,     \* the receiver's call of receipts_to_voucher: its arguments
                 \* and, once it returned, its result
    zkp          \* the call of zkp::iter::rows: its input, its result and the
                 \* RowIterator with the items it has yielded

vars == <<transfers, ret, borrowed, installs, warnings, absorbed, voucher, zkp>>

(***************************************************************************)
(* Return values.                                                          *)
(***************************************************************************)
\* No call of receipts_to_voucher was made.
NoVoucher  == [kind |-> "NoVoucher"]
\* No call of rows was made.
NoRows     == [kind |-> "NoRows"]
Unit       == [kind |-> "Unit"]
Panic      == [kind |-> "Panic"]
BorrowFail == [kind |-> "InsufficientCollateral"]
U256(n)    == [kind |-> "U256", value |-> n]
\* The commitment of a ReceiptBorrow goes to the caller: it is added to borrowed.
ReceiptBorrow(low_collateral_warning) ==
    [kind |-> "ReceiptBorrow", low_collateral_warning |-> low_collateral_warning]

(***************************************************************************)
(* Helpers over sequences and bags.                                        *)
(***************************************************************************)
RECURSIVE SumUnlocked(_)
SumUnlocked(receipts) ==
    IF receipts = <<>> THEN 0
    ELSE Head(receipts).unlocked_fee + SumUnlocked(Tail(receipts))

\* Mutant: the element is read and stays where it is.
swap_remove_keep(s, i) == s

\* Mutant: the last element is removed, whatever i is.
swap_remove_last(s, i) == SubSeq(s, 1, Len(s) - 1)

\* Vec::swap_remove: the element at i is replaced by the last one.
swap_remove(s, i) ==
    [k \in 1..(Len(s) - 1) |-> IF k = i THEN s[Len(s)] ELSE s[k]]

\* Iterator::position over the transfers, 0 for None.
position(ts, vector_transfer_id) ==
    LET found == {k \in 1..Len(ts) : ts[k].vector_transfer_id = vector_transfer_id}
    IN  IF found = {} THEN 0 ELSE CHOOSE k \in found : \A j \in found : k <= j

transfer_by_id_mut(ts, vector_transfer_id) == position(ts, vector_transfer_id)

\* Mutant: a payment that would overflow the total is left out of it.
saturating_add_skip(a, b) == IF a + b > U256_MAX THEN a ELSE a + b

\* Mutant: the sum wraps around instead of flattening at the largest U256.
wrapping_add(a, b) == (a + b) % (U256_MAX + 1)

saturating_add(a, b) == IF a + b > U256_MAX THEN U256_MAX ELSE a + b
saturating_mul(a, b) == IF a * b > U256_MAX THEN U256_MAX ELSE a * b

(***************************************************************************)
(* The pure parts of the pool.                                             *)
(***************************************************************************)
\* Mutant: the warning is due at half of the collateral.
Transfer_threshold_half(signer, collateral, vector_transfer_id) ==
    [signer                   |-> signer,
     initial_collateral       |-> collateral,
     remaining_collateral     |-> collateral,
     low_collateral_threshold |-> collateral \div 2,
     receipt_cache            |-> <<>>,
     prev_receipt_id          |-> 0,
     vector_transfer_id       |-> vector_transfer_id]

Transfer(signer, collateral, vector_transfer_id) ==
    [signer                   |-> signer,
     initial_collateral       |-> collateral,
     remaining_collateral     |-> collateral,
     low_collateral_threshold |-> collateral \div 4,
     receipt_cache            |-> <<>>,
     prev_receipt_id          |-> 0,
     vector_transfer_id       |-> vector_transfer_id]

\* Mutant: a receipt is pooled without the fee unlocked before.
PooledReceipt_zero(receipt_id, unlocked_fee) ==
    [receipt_id |-> receipt_id, unlocked_fee |-> 0]

PooledReceipt(receipt_id, unlocked_fee) ==
    [receipt_id |-> receipt_id, unlocked_fee |-> unlocked_fee]

RECURSIVE SumCaches(_)
SumCaches(ts) ==
    IF ts = <<>> THEN 0
    ELSE SumUnlocked(Head(ts).receipt_cache) + SumCaches(Tail(ts))

known_unlocked_fees(ts) == SumCaches(ts)

has_collateral_for(ts, locked_fee) ==
    \E k \in 1..Len(ts) :
        /\ ts[k].remaining_collateral >= locked_fee
        /\ (Len(ts[k].receipt_cache) > 0 \/ ts[k].prev_receipt_id # MAX_RECEIPT_ID)

RECURSIVE select_from(_, _, _, _)
select_from(ts, locked_fee, k, selected) ==
    IF k > Len(ts) THEN selected
    ELSE IF ts[k].remaining_collateral < locked_fee
         THEN select_from(ts, locked_fee, k + 1, selected)
    ELSE IF selected = 0
         THEN select_from(ts, locked_fee, k + 1, k)
    ELSE IF ts[selected].remaining_collateral > ts[k].remaining_collateral
         THEN select_from(ts, locked_fee, k + 1, k)
    ELSE select_from(ts, locked_fee, k + 1, selected)

\* Mutant: the first transfer that can pay, whatever the others hold.
select_transfer_first_fit(ts, locked_fee) ==
    LET fit == {k \in 1..Len(ts) : ts[k].remaining_collateral >= locked_fee}
    IN  IF fit = {} THEN 0 ELSE CHOOSE k \in fit : \A j \in fit : k <= j

\* Mutant: >= for > in the comparison, so that the last of a tie is selected.
select_transfer_last_tie(ts, locked_fee) ==
    LET fit == {k \in 1..Len(ts) : ts[k].remaining_collateral >= locked_fee}
    IN  IF fit = {} THEN 0
        ELSE CHOOSE k \in fit :
                 \A j \in fit :
                     \/ ts[k].remaining_collateral < ts[j].remaining_collateral
                     \/ /\ ts[k].remaining_collateral = ts[j].remaining_collateral
                        /\ k >= j

\* The index of the selected transfer, 0 for None.
select_transfer(ts, locked_fee) == select_from(ts, locked_fee, 1, 0)

\* The signature over keccak(fee || receipt_id) by the transfer's signer.
sign_recoverable(fee, receipt_id, signer) ==
    [fee |-> fee, receipt_id |-> receipt_id, signer |-> signer]

\* The bytes of a commitment, by field.
Commitment(vector_transfer_id, fee, receipt_id, signer, unlocked_fee) ==
    [vector_transfer_id |-> vector_transfer_id,
     fee                |-> fee,
     receipt_id         |-> receipt_id,
     signature          |-> sign_recoverable(fee, receipt_id, signer),
     unlocked_fee       |-> unlocked_fee]

\* Mutant: the unlocked fee is not subtracted.
locked_fee_whole(bytes) == bytes.fee

\* release: let locked_fee = fee - unlocked_fee
locked_fee_of(bytes) == bytes.fee - bytes.unlocked_fee

\* Mutant: the fee of a successful query goes back to the collateral too.
funds_destination_collateral(status) == "remaining_collateral"

\* Mutant: an unknown outcome is taken for a success.
funds_destination_unknown_success(status) ==
    CASE status = "Failure" -> "remaining_collateral"
      [] status = "Success" -> "unlocked_fee"
      [] status = "Unknown" -> "unlocked_fee"

\* release: match status { ... }: where the locked fee goes.
funds_destination(status) ==
    CASE status = "Failure" -> "remaining_collateral"
      [] status = "Success" -> "unlocked_fee"
      [] status = "Unknown" -> "remaining_collateral"

(***************************************************************************)
(* Bookkeeping on the commitments in flight.                               *)
(***************************************************************************)
Outstanding(commitment, install) == [bytes |-> commitment, install |-> install]

Installed(vector_transfer_id) == position(transfers, vector_transfer_id) # 0

\* The commitment was emitted by the transfer that is installed now.
Current(c) ==
    /\ Installed(c.bytes.vector_transfer_id)
    /\ c.install = installs[c.bytes.vector_transfer_id]

\* The commitments in flight that the installed transfer t emitted.
OwnOutstanding(t) ==
    {c \in DOMAIN borrowed :
        /\ c.bytes.vector_transfer_id = t.vector_transfer_id
        /\ c.install = installs[t.vector_transfer_id]}

\* The sum of one field ("fee" or "unlocked_fee") over the commitments S in flight.
RECURSIVE SumField(_, _)
SumField(S, name) ==
    IF S = {} THEN 0
    ELSE LET c == CHOOSE x \in S : TRUE
         IN  borrowed[c] * c.bytes[name] + SumField(S \ {c}, name)

(***************************************************************************)
(* Initial state: ReceiptPool::new().                                      *)
(***************************************************************************)
Init ==
    /\ transfers = <<>>
    /\ ret = Unit
    /\ borrowed = EmptyBag
    /\ installs = [id \in TransferIds |-> 0]
    /\ warnings = [id \in TransferIds |-> 0]
    /\ absorbed = [id \in TransferIds |-> 0]
    /\ voucher = NoVoucher
    /\ zkp = NoRows

Running == ret.kind # "Panic"

\* Mutant: a second add_transfer of an id installs the transfer anew.
add_transfer_overwrite(signer, collateral, vector_transfer_id) ==
    /\ Running
    /\ LET index == position(transfers, vector_transfer_id)
       IN  IF index # 0
           THEN /\ transfers' = [transfers EXCEPT ![index] =
                       Transfer(signer, collateral, vector_transfer_id)]
                /\ UNCHANGED <<installs, warnings, absorbed>>
           ELSE /\ transfers' = Append(transfers,
                                       Transfer(signer, collateral, vector_transfer_id))
                /\ installs' = [installs EXCEPT ![vector_transfer_id] = @ + 1]
                /\ warnings' = [warnings EXCEPT ![vector_transfer_id] = 0]
                /\ absorbed' = [absorbed EXCEPT ![vector_transfer_id] = 0]
    /\ ret' = Unit
    /\ UNCHANGED <<borrowed, voucher, zkp>>

(***************************************************************************)
(* add_transfer                                                            *)
(***************************************************************************)
add_transfer(signer, collateral, vector_transfer_id) ==
    /\ Running
    /\ IF \E k \in 1..Len(transfers) :
              transfers[k].vector_transfer_id = vector_transfer_id
       THEN UNCHANGED <<transfers, installs, warnings, absorbed>>
       ELSE /\ transfers' = Append(transfers,
                                   Transfer(signer, collateral, vector_transfer_id))
            /\ installs' = [installs EXCEPT ![vector_transfer_id] = @ + 1]
            /\ warnings' = [warnings EXCEPT ![vector_transfer_id] = 0]
            /\ absorbed' = [absorbed EXCEPT ![vector_transfer_id] = 0]
    /\ ret' = Unit
    /\ UNCHANGED <<borrowed, voucher, zkp>>

(***************************************************************************)
(* remove_transfer                                                         *)
(***************************************************************************)
remove_transfer(vector_transfer_id) ==
    /\ Running
    /\ LET index == position(transfers, vector_transfer_id)
       IN  IF index # 0
           THEN transfers' = swap_remove(transfers, index)
           ELSE UNCHANGED transfers
    /\ ret' = Unit
    /\ UNCHANGED <<borrowed, installs, warnings, absorbed, voucher, zkp>>

(***************************************************************************)
(* recommended_collateral: it only reads the pool.                         *)
(***************************************************************************)
RECURSIVE used_from(_, _)
used_from(ts, used) ==
    IF ts = <<>> THEN used
    ELSE used_from(Tail(ts),
                   saturating_add(used, Head(ts).initial_collateral
                                        - Head(ts).remaining_collateral))

\* U256's - panics when the result would be negative.
recommended_collateral(ts) ==
    IF \E k \in 1..Len(ts) : ts[k].initial_collateral < ts[k].remaining_collateral
    THEN Panic
    ELSE U256(saturating_mul(used_from(ts, 0), 2))

(***************************************************************************)
(* commit, as a function of the pool, the fee and the index the rng draws. *)
(* It gives the pool afterwards, the return value and the commitment (a    *)
(* sequence of one, or none).                                              *)
(***************************************************************************)
Outcome(ts, r, emitted) == [transfers |-> ts, ret |-> r, emitted |-> emitted]

\* Mutant: the threshold stays as it is when the warning goes out.
emit_keeps_threshold(ts, sel, t, receipt, locked_fee, low_before, low_now) ==
    IF receipt.unlocked_fee + locked_fee > U256_MAX
    THEN Outcome([ts EXCEPT ![sel] = t], Panic, <<>>)
    ELSE LET fee == receipt.unlocked_fee + locked_fee
             commitment == Commitment(t.vector_transfer_id, fee, receipt.receipt_id,
                                      t.signer, receipt.unlocked_fee)
         IN  Outcome([ts EXCEPT ![sel] = t],
                     ReceiptBorrow(low_before # low_now),
                     <<commitment>>)

\* The part of commit after the receipt slot is obtained: the transfer t (at
\* index sel) already has the fee deducted and the receipt taken.
emit(ts, sel, t, receipt, locked_fee, low_before, low_now) ==
    IF receipt.unlocked_fee + locked_fee > U256_MAX
    THEN \* let fee = receipt.unlocked_fee + locked_fee panics
         Outcome([ts EXCEPT ![sel] = t], Panic, <<>>)
    ELSE LET fee == receipt.unlocked_fee + locked_fee
             commitment == Commitment(t.vector_transfer_id, fee, receipt.receipt_id,
                                      t.signer, receipt.unlocked_fee)
             low_collateral_warning == low_before # low_now
         IN  Outcome([ts EXCEPT ![sel] =
                         IF low_collateral_warning
                         THEN [t EXCEPT !.low_collateral_threshold = 0]
                         ELSE t],
                     ReceiptBorrow(low_collateral_warning),
                     <<commitment>>)

\* Mutant: the deducted fee stays deducted when no receipt id is left.
put_back_nothing(transfer, locked_fee) == transfer

\* transfer.remaining_collateral += locked_fee: the collateral that is not
\* locked in a receipt goes back into the transfer (no overflow: it was
\* deducted from the same field just before).
put_back(transfer, locked_fee) ==
    [transfer EXCEPT !.remaining_collateral = @ + locked_fee]

commit_outcome(ts, locked_fee, index) ==
    LET sel == select_transfer(ts, locked_fee)
    IN  IF sel = 0
        THEN Outcome(ts, BorrowFail, <<>>)
        ELSE LET transfer == ts[sel]
                 low_before == transfer.remaining_collateral
                                   < transfer.low_collateral_threshold
                 deducted == [transfer EXCEPT !.remaining_collateral = @ - locked_fee]
                 low_now == deducted.remaining_collateral
                                < deducted.low_collateral_threshold
             IN  IF Len(transfer.receipt_cache) = 0
                 THEN IF transfer.prev_receipt_id = MAX_RECEIPT_ID
                      THEN Outcome([ts EXCEPT ![sel] =
                                       put_back(deducted, locked_fee)],
                                   BorrowFail, <<>>)
                      ELSE LET receipt_id == transfer.prev_receipt_id + 1
                           IN  emit(ts, sel,
                                    [deducted EXCEPT !.prev_receipt_id = receipt_id],
                                    PooledReceipt(receipt_id, 0),
                                    locked_fee, low_before,
                                    low_now \/ transfer.prev_receipt_id
                                                   = LOW_RECEIPT_CAPACITY)
                 ELSE emit(ts, sel,
                           [deducted EXCEPT !.receipt_cache =
                                swap_remove(transfer.receipt_cache, index)],
                           transfer.receipt_cache[index],
                           locked_fee, low_before, low_now)

\* rng().gen_range(0..receipts.len()), drawn only when the cache is not empty.
gen_range(ts, locked_fee) ==
    LET sel == select_transfer(ts, locked_fee)
    IN  IF sel # 0 /\ Len(ts[sel].receipt_cache) > 0
        THEN 1..Len(ts[sel].receipt_cache)
        ELSE {0}

commit(locked_fee) ==
    /\ Running
    /\ \E index \in gen_range(transfers, locked_fee) :
           LET out == commit_outcome(transfers, locked_fee, index)
               low == out.ret.kind = "ReceiptBorrow" /\ out.ret.low_collateral_warning
           IN  /\ transfers' = out.transfers
               /\ ret' = out.ret
               /\ borrowed' = borrowed (+) SetToBag(
                      {Outstanding(out.emitted[i],
                                   installs[out.emitted[i].vector_transfer_id]) :
                           i \in DOMAIN out.emitted})
               /\ warnings' = [id \in DOMAIN warnings |->
                      IF low /\ id = out.emitted[1].vector_transfer_id
                      THEN warnings[id] + 1
                      ELSE warnings[id]]
    /\ UNCHANGED <<installs, absorbed, voucher, zkp>>

(***************************************************************************)
(* release, as a function of the pool, the commitment and the status.      *)
(***************************************************************************)
release_outcome(ts, bytes, status) ==
    LET index == transfer_by_id_mut(ts, bytes.vector_transfer_id)
    IN  IF index = 0
        THEN Outcome(ts, Unit, <<>>)
        ELSE LET transfer == ts[index]
                 locked_fee == locked_fee_of(bytes)
                 receipt == PooledReceipt(bytes.receipt_id, bytes.unlocked_fee)
             IN  IF funds_destination(status) = "remaining_collateral"
                 THEN IF transfer.remaining_collateral + locked_fee > U256_MAX
                      THEN \* *funds_destination += locked_fee panics
                           Outcome(ts, Panic, <<>>)
                      ELSE Outcome([ts EXCEPT ![index] =
                                       [transfer EXCEPT
                                           !.remaining_collateral = @ + locked_fee,
                                           !.receipt_cache = Append(@, receipt)]],
                                   Unit, <<>>)
                 ELSE \* receipt.unlocked_fee + locked_fee is the fee: no overflow
                      Outcome([ts EXCEPT ![index] =
                                  [transfer EXCEPT !.receipt_cache =
                                      Append(@, [receipt EXCEPT
                                                    !.unlocked_fee = @ + locked_fee])]],
                              Unit, <<>>)

\* release of a commitment in flight
release(c, status) ==
    /\ Running
    /\ BagIn(c, borrowed)
    /\ borrowed' = borrowed (-) SetToBag({c})
    /\ LET out == release_outcome(transfers, c.bytes, status)
       IN  /\ transfers' = out.transfers
           /\ ret' = out.ret
           /\ absorbed' = [id \in DOMAIN absorbed |->
                  IF /\ id = c.bytes.vector_transfer_id
                     /\ out.transfers # transfers
                     /\ ~Current(c)
                  THEN absorbed[id] + c.bytes.fee
                  ELSE absorbed[id]]
    /\ UNCHANGED <<installs, warnings, voucher, zkp>>

(***************************************************************************)
(* The pool under any caller.                                              *)
(***************************************************************************)
RECURSIVE Installations(_)
Installations(ids) ==
    IF ids = {} THEN 0
    ELSE LET id == CHOOSE x \in ids : TRUE
         IN  installs[id] + Installations(ids \ {id})

\* The caller gives a new transfer a key of its own, and may repeat the call
\* for an installed transfer with any key.
AddTransfer(ids, collaterals) ==
    \E signer \in Signers, collateral \in collaterals, id \in ids :
        /\ ~Installed(id) => /\ signer = <<id, installs[id] + 1>>
                             /\ Installations(TransferIds) < MaxInstalls
        /\ add_transfer(signer, collateral, id)

RemoveTransfer(ids) == \E id \in ids : remove_transfer(id)

Commit(fees) ==
    \E locked_fee \in fees :
        /\ commit(locked_fee)
        /\ BagCardinality(borrowed') <= MaxOutstanding

Release == \E c \in DOMAIN borrowed, status \in QueryStatus : release(c, status)

Next ==
    \/ AddTransfer(TransferIds, Collaterals)
    \/ RemoveTransfer(TransferIds)
    \/ Commit(Fees)
    \/ Release

Spec == Init /\ [][Next]_vars

\* One transfer id with collateral large enough for a low-collateral threshold.
LatchNext ==
    \/ AddTransfer(LatchIds, LatchCollaterals)
    \/ RemoveTransfer(LatchIds)
    \/ Commit(LatchFees)
    \/ Release

SpecLatch == Init /\ [][LatchNext]_vars

(***************************************************************************)
(* The pool of tests::selects_best_transfers, under commits of any fee.    *)
(***************************************************************************)
SelectCollaterals == <<4, 3, 1, 2, 2, 1, 3, 4>>
SelectFeeSequence == <<2, 4, 3, 1, 2, 3, 1, 4>>
SelectIds  == DOMAIN SelectCollaterals
SelectFees == {SelectFeeSequence[i] : i \in DOMAIN SelectFeeSequence}
SelectPool ==
    [k \in SelectIds |-> Transfer(<<k, 1>>, SelectCollaterals[k], k)]

SelectInit ==
    /\ transfers = SelectPool
    /\ ret = Unit
    /\ borrowed = EmptyBag
    /\ installs = [id \in SelectIds |-> 1]
    /\ warnings = [id \in SelectIds |-> 0]
    /\ absorbed = [id \in SelectIds |-> 0]
    /\ voucher = NoVoucher
    /\ zkp = NoRows

SelectNext == \E locked_fee \in SelectFees : commit(locked_fee)

SpecSelect == SelectInit /\ [][SelectNext]_vars

(***************************************************************************)
(* The receiver's voucher builder (src/src/voucher.rs).                    *)
(*                                                                         *)
(* Byte strings are scaled: a byte is one bit, a U256 is U256_BITS of them *)
(* (big-endian), a ReceiptId RECEIPT_ID_LEN of them.  The data is the      *)
(* sequence of its whole records and the number of bytes that follow them  *)
(* (less than SIZE).  A signature is either bytes that do not parse as one *)
(* or the signature of a key over a message; keccak is taken to have no    *)
(* collisions, so a message stands for its hash.  The 65th byte of a       *)
(* signature is not read.                                                  *)
(***************************************************************************)
Byte           == {0, 1}
ReceiptIds     == [1..RECEIPT_ID_LEN -> Byte]
Addresses      == {"A1", "A2"}
Keys           == {"Ka", "Kv"}
VoucherSigners == {"Kv"}
PaymentAmounts == {0, 3, 5}
TrailingBytes  == {0, 1}

\* to_be_bytes of a U256
to_be_bytes(n) == [i \in 1..U256_BITS |-> (n \div 2^(U256_BITS - i)) % 2]

\* U256::from_big_endian
RECURSIVE from_big_endian(_)
from_big_endian(bytes) ==
    IF bytes = <<>> THEN 0
    ELSE Head(bytes) * 2^(Len(bytes) - 1) + from_big_endian(Tail(bytes))

\* Mutant: an id equal to the one before passes.
RECURSIVE lt_or_equal(_, _)
lt_or_equal(a, b) ==
    IF a = <<>> THEN TRUE
    ELSE IF Head(a) # Head(b) THEN Head(a) < Head(b)
    ELSE lt_or_equal(Tail(a), Tail(b))

\* < of two arrays of the same length: the order of their first different bytes
RECURSIVE lt(_, _)
lt(a, b) ==
    IF a = <<>> THEN FALSE
    ELSE IF Head(a) # Head(b) THEN Head(a) < Head(b)
    ELSE lt(Tail(a), Tail(b))

\* ReceiptId::default(): all bytes zero
ReceiptId_default == [i \in 1..RECEIPT_ID_LEN |-> 0]

MalformedSignature == [kind |-> "Malformed"]
Signed(key, message) == [kind |-> "Signature", key |-> key, message |-> message]

\* secp256k1::Signature::from_compact: whether the bytes parse
from_compact(signature) == signature.kind = "Signature"

\* Mutant: the signature is checked for the payment and the receipt id only,
\* whatever allocation it was made for.
verify_unbound(message, signature, key) ==
    /\ signature.key = key
    /\ signature.message[2] = message[2]
    /\ signature.message[3] = message[3]

\* SECP256K1.verify
verify(message, signature, key) ==
    signature.key = key /\ signature.message = message

\* keccak(allocation_id || payment || receipt_id)
receipt_message(allocation_id, chunk) ==
    <<allocation_id, chunk.payment, chunk.receipt_id>>

\* sign(&message, voucher_signer)
sign(message, key) == Signed(key, message)

VoucherError(e) == [kind |-> "Err", error |-> e]

\* Mutant: only the whole records are counted.
len_of_records(data) == Len(data.records) * SIZE

\* data.len()
len(data) == Len(data.records) * SIZE + data.extra

\* data.chunks_exact(SIZE): the whole records, the rest is left out
chunks_exact(data) == data.records

\* The loop over the records: the first error, or the total.
RECURSIVE for_chunk(_, _, _, _, _)
for_chunk(allocation_id, allocation_signer, chunks, prev_receipt_id, total) ==
    IF chunks = <<>> THEN [kind |-> "Total", total |-> total]
    ELSE LET chunk == Head(chunks)
         IN  IF ~lt(prev_receipt_id, chunk.receipt_id)
             THEN VoucherError("UnorderedReceipts")
             ELSE IF ~from_compact(chunk.signature)
             THEN VoucherError("InvalidData")
             ELSE IF ~verify(receipt_message(allocation_id, chunk),
                             chunk.signature, allocation_signer)
             THEN VoucherError("InvalidSignature")
             ELSE for_chunk(allocation_id, allocation_signer, Tail(chunks),
                            chunk.receipt_id,
                            saturating_add(total, from_big_endian(chunk.payment)))

\* Mutant: a total of zero is signed like any other.
write_voucher_unchecked(allocation_id, voucher_signer, total) ==
    [kind |-> "Ok",
     allocation_id |-> allocation_id,
     total |-> to_be_bytes(total),
     signature |-> sign(<<allocation_id, to_be_bytes(total)>>, voucher_signer)]

\* The end of receipts_to_voucher: allocation_id || total || signature.
write_voucher(allocation_id, voucher_signer, total) ==
    IF total = 0
    THEN VoucherError("NoValue")
    ELSE [kind |-> "Ok",
          allocation_id |-> allocation_id,
          total |-> to_be_bytes(total),
          signature |-> sign(<<allocation_id, to_be_bytes(total)>>, voucher_signer)]

receipts_to_voucher(allocation_id, allocation_signer, voucher_signer, data) ==
    IF len(data) % SIZE # 0
    THEN VoucherError("InvalidData")
    ELSE LET r == for_chunk(allocation_id, allocation_signer, chunks_exact(data),
                            ReceiptId_default, 0)
         IN  IF r.kind = "Err" THEN r
             ELSE write_voucher(allocation_id, voucher_signer, r.total)

\* The data a caller may pass: records with any payment and id, whose
\* signature is malformed or made by some key for some allocation over the
\* record's id and its payment or a payment of 0.
Signatures(payment, receipt_id) ==
    {MalformedSignature} \cup
    {Signed(key, <<a, p, receipt_id>>) :
        key \in Keys, a \in Addresses, p \in {payment, to_be_bytes(0)}}

Chunks ==
    UNION {{[payment |-> to_be_bytes(amount), receipt_id |-> id, signature |-> sg] :
               sg \in Signatures(to_be_bytes(amount), id)} :
           amount \in PaymentAmounts, id \in ReceiptIds}

Datas ==
    {[records |-> r, extra |-> e] :
        r \in UNION {[1..n -> Chunks] : n \in 0..MaxReceipts},
        e \in TrailingBytes}

Pending == [kind |-> "Pending"]

VoucherInit ==
    /\ transfers = <<>>
    /\ ret = Unit
    /\ borrowed = EmptyBag
    /\ installs = [id \in TransferIds |-> 0]
    /\ warnings = [id \in TransferIds |-> 0]
    /\ absorbed = [id \in TransferIds |-> 0]
    /\ \E allocation_id \in Addresses, allocation_signer \in Keys,
          voucher_signer \in VoucherSigners, data \in Datas :
           voucher = [kind |-> "Call",
                      allocation_id |-> allocation_id,
                      allocation_signer |-> allocation_signer,
                      voucher_signer |-> voucher_signer,
                      data |-> data,
                      result |-> Pending]
    /\ zkp = NoRows

ReceiptsToVoucher ==
    /\ voucher.kind = "Call"
    /\ voucher.result = Pending
    /\ voucher' = [voucher EXCEPT !.result =
           receipts_to_voucher(voucher.allocation_id, voucher.allocation_signer,
                               voucher.voucher_signer, voucher.data)]
    /\ UNCHANGED <<transfers, ret, borrowed, installs, warnings, absorbed, zkp>>

VoucherNext == ReceiptsToVoucher

SpecVoucher == VoucherInit /\ [][VoucherNext]_vars

(***************************************************************************)
(* The row iterator of the zkp (src/src/zkp/iter.rs, src/src/zkp/receipt.rs).*)
(***************************************************************************)
RowIds      == 0..(MAX_ID + 1)
RowPayments == {0, 1}

\* zkp::receipt::Receipt; its signature is ().
Receipt(id, payment_amount) ==
    [id |-> id, payment_amount |-> payment_amount, signature |-> <<>>]

\* Receipt::null
null(id) == Receipt(id, 0)

\* One step of the stable sort: r goes behind the receipts whose id is not
\* smaller than its own.
RECURSIVE insert(_, _)
insert(sorted, r) ==
    IF sorted = <<>> THEN <<r>>
    ELSE IF Head(sorted).id >= r.id
         THEN <<Head(sorted)>> \o insert(Tail(sorted), r)
         ELSE <<r>> \o sorted

\* Mutant: the receipts stay in the order given.
sort_by_nothing(receipts) == receipts

\* receipts.sort_by(|a, b| b.id.cmp(&a.id)): stable, the largest id first
RECURSIVE sort_by(_)
sort_by(receipts) ==
    IF receipts = <<>> THEN <<>>
    ELSE insert(sort_by(SubSeq(receipts, 1, Len(receipts) - 1)),
                receipts[Len(receipts)])

RowsError(e) == [kind |-> "Err", error |-> e]

RowIterator(id, receipts) == [kind |-> "Ok", id |-> id, receipts |-> receipts]

rows(input) ==
    LET receipts == sort_by(input)
    IN  IF receipts # <<>> /\ receipts[1].id > MAX_ID
        THEN RowsError("InvalidID")
        ELSE IF \E i \in 1..(Len(receipts) - 1) : receipts[i].id = receipts[i + 1].id
        THEN RowsError("DuplicateID")
        ELSE RowIterator(0, receipts)

\* RowIterator::next: the iterator afterwards and the item (a sequence of
\* one, or none for None).
next(iterator) ==
    LET id == iterator.id
    IN  IF id = MAX_ID
        THEN [iterator |-> iterator, item |-> <<>>]
        ELSE IF /\ iterator.receipts # <<>>
                /\ id = iterator.receipts[Len(iterator.receipts)].id
        THEN [iterator |-> [iterator EXCEPT
                               !.id = id + 1,
                               !.receipts = SubSeq(@, 1, Len(@) - 1)],
              item |-> <<iterator.receipts[Len(iterator.receipts)]>>]
        ELSE [iterator |-> [iterator EXCEPT !.id = id + 1],
              item |-> <<null(id)>>]

RowReceipts == {Receipt(id, payment) : id \in RowIds, payment \in RowPayments}

RowInputs == UNION {[1..n -> RowReceipts] : n \in 0..MaxRows}

RowsInit ==
    /\ transfers = <<>>
    /\ ret = Unit
    /\ borrowed = EmptyBag
    /\ installs = [id \in TransferIds |-> 0]
    /\ warnings = [id \in TransferIds |-> 0]
    /\ absorbed = [id \in TransferIds |-> 0]
    /\ voucher = NoVoucher
    /\ \E input \in RowInputs :
           zkp = [kind |-> "Input", input |-> input]

\* The call of rows.
Rows ==
    /\ zkp.kind = "Input"
    /\ zkp' = [kind |-> "Rows",
               input |-> zkp.input,
               result |-> rows(zkp.input),
               items |-> <<>>,
               ended |-> FALSE]
    /\ UNCHANGED <<transfers, ret, borrowed, installs, warnings, absorbed, voucher>>

\* A call of next on the iterator that rows returned, until it returns None.
IteratorNext ==
    /\ zkp.kind = "Rows"
    /\ zkp.result.kind = "Ok"
    /\ ~zkp.ended
    /\ LET n == next(zkp.result)
       IN  zkp' = [zkp EXCEPT !.result = n.iterator,
                              !.items = @ \o n.item,
                              !.ended = (n.item = <<>>)]
    /\ UNCHANGED <<transfers, ret, borrowed, installs, warnings, absorbed, voucher>>

RowsNext == Rows \/ IteratorNext

SpecRows == RowsInit /\ [][RowsNext]_vars

(***************************************************************************)
(* Notions the properties use.                                               *)
(***************************************************************************)
\* The transfers that can pay locked_fee alone.
CanPay(ts, locked_fee) ==
    {k \in 1..Len(ts) : ts[k].remaining_collateral >= locked_fee}

\* The transfer with the least remaining collateral among those that can pay,
\* the earliest of them on a tie.
LeastFit(ts, locked_fee) ==
    CHOOSE k \in CanPay(ts, locked_fee) :
        \A j \in CanPay(ts, locked_fee) :
            \/ ts[k].remaining_collateral < ts[j].remaining_collateral
            \/ /\ ts[k].remaining_collateral = ts[j].remaining_collateral
               /\ k <= j

\* The transfer has no receipt to lend and no receipt id left.
Exhausted(t) ==
    Len(t.receipt_cache) = 0 /\ t.prev_receipt_id = MAX_RECEIPT_ID

Indexes == 1..Len(transfers)

C2_RemainingBounded ==
    \A k \in Indexes :
        transfers[k].remaining_collateral <= transfers[k].initial_collateral

\* C3: the outstanding commitments of an installed transfer carry pairwise
\* different receipt ids, and every receipt id outstanding or in the cache lies
\* in 1..prev_receipt_id, with prev_receipt_id <= MAX_RECEIPT_ID.
C3_UniqueIdsInRange ==
    \A k \in Indexes :
        LET t == transfers[k]
            own == OwnOutstanding(t)
        IN  /\ \A c \in own : borrowed[c] = 1
            /\ \A c, d \in own : c # d => c.bytes.receipt_id # d.bytes.receipt_id
            /\ t.prev_receipt_id <= MAX_RECEIPT_ID
            /\ \A c \in own :
                   1 <= c.bytes.receipt_id /\ c.bytes.receipt_id <= t.prev_receipt_id
            /\ \A i \in 1..Len(t.receipt_cache) :
                   /\ 1 <= t.receipt_cache[i].receipt_id
                   /\ t.receipt_cache[i].receipt_id <= t.prev_receipt_id

\* C4: at most one commit of an installed transfer returned the low-collateral
\* warning, and a transfer whose remaining collateral is below a quarter of
\* its initial collateral has had it.
C4_OneWarning ==
    \A k \in Indexes :
        LET t == transfers[k]
        IN  /\ warnings[t.vector_transfer_id] <= 1
            /\ t.remaining_collateral < t.initial_collateral \div 4
                   => warnings[t.vector_transfer_id] = 1

\* C5, as stated: commit(F) returns InsufficientCollateral if and only if no
\* single installed transfer has remaining_collateral >= F.
C5_FailsIffNoneCanPay ==
    [][\A locked_fee \in Fees :
          commit(locked_fee) =>
              (ret'.kind = "InsufficientCollateral"
                  <=> CanPay(transfers, locked_fee) = {})]_vars

\* C5, amended: commit(F) returns InsufficientCollateral if and only if no
\* single installed transfer has remaining_collateral >= F, or the one of them
\* with the least remaining collateral (the earliest on a tie) has an empty
\* cache and prev_receipt_id = MAX_RECEIPT_ID.
C5_FailsIffNoneCanPayOrExhausted ==
    [][\A locked_fee \in Fees :
          commit(locked_fee) =>
              (ret'.kind = "InsufficientCollateral"
                  <=> \/ CanPay(transfers, locked_fee) = {}
                      \/ Exhausted(transfers[LeastFit(transfers, locked_fee)]))]_vars

\* A commit failed although every installed transfer could pay any fee alone.
C5_Witness ==
    /\ ret.kind = "InsufficientCollateral"
    /\ Len(transfers) = 2
    /\ \A k \in Indexes : transfers[k].remaining_collateral = MaxCollateral

\* C6: has_collateral_for(locked_fee) is true exactly when the commit of
\* locked_fee that follows on the same pool returns a commitment.
C6_HasCollateralAgrees ==
    [][\A locked_fee \in Fees :
          commit(locked_fee) =>
              (has_collateral_for(transfers, locked_fee)
                  <=> ret'.kind = "ReceiptBorrow")]_vars

\* The pool after the commits of fees, one after the other (no cache is used).
RECURSIVE Serve(_, _)
Serve(ts, fees) ==
    IF fees = <<>> THEN ts
    ELSE Serve(commit_outcome(ts, Head(fees), 0).transfers, Tail(fees))

\* Every commit of fees, one after the other, returns a commitment.
RECURSIVE AllServed(_, _)
AllServed(ts, fees) ==
    \/ fees = <<>>
    \/ /\ commit_outcome(ts, Head(fees), 0).ret.kind = "ReceiptBorrow"
       /\ AllServed(commit_outcome(ts, Head(fees), 0).transfers, Tail(fees))

\* C7: a successful commit deducts the fee from the transfer with the least
\* remaining collateral among those that can pay it, the earliest on a tie,
\* and from no other; and with collaterals [4,3,1,2,2,1,3,4] the fees
\* [2,4,3,1,2,3,1,4] are all served and a commit of 1 after them fails.
C7_GreedyLeast ==
    /\ [][\A locked_fee \in SelectFees :
             (commit(locked_fee) /\ ret'.kind = "ReceiptBorrow") =>
                 /\ CanPay(transfers, locked_fee) # {}
                 /\ LET k == LeastFit(transfers, locked_fee)
                    IN  /\ transfers'[k].remaining_collateral
                               = transfers[k].remaining_collateral - locked_fee
                        /\ \A j \in Indexes \ {k} : transfers'[j] = transfers[j]]_vars
    /\ [](transfers = SelectPool =>
             /\ AllServed(transfers, SelectFeeSequence)
             /\ commit_outcome(Serve(transfers, SelectFeeSequence), 1, 0).ret.kind
                    = "InsufficientCollateral")

\* The fees of the test were served, and the commit of 1 after them failed.
C7_Witness ==
    /\ transfers = Serve(SelectPool, SelectFeeSequence)
    /\ \A k \in Indexes : transfers[k].remaining_collateral = 0
    /\ BagCardinality(borrowed) = Len(SelectFeeSequence)
    /\ ret.kind = "InsufficientCollateral"

\* C8: add_transfer with an installed id leaves the pool as it is; with a new
\* id it appends a transfer with remaining = initial = collateral, threshold
\* collateral / 4, prev_receipt_id 0 and an empty cache.
C8_AddTransferIdempotent ==
    [][\A signer \in Signers, collateral \in Collaterals, id \in TransferIds :
          add_transfer(signer, collateral, id) =>
              IF Installed(id)
              THEN transfers' = transfers
              ELSE /\ Len(transfers') = Len(transfers) + 1
                   /\ SubSeq(transfers', 1, Len(transfers)) = transfers
                   /\ LET t == transfers'[Len(transfers')]
                      IN  /\ t.vector_transfer_id = id
                          /\ t.signer = signer
                          /\ t.initial_collateral = collateral
                          /\ t.remaining_collateral = collateral
                          /\ t.low_collateral_threshold = collateral \div 4
                          /\ t.prev_receipt_id = 0
                          /\ t.receipt_cache = <<>>]_vars

\* A new transfer was appended behind one that has lent a receipt, and
\* add_transfer was called for an installed id before.
C8_Witness ==
    /\ ret.kind = "Unit"
    /\ Len(transfers) = 2
    /\ transfers[1].prev_receipt_id > 0
    /\ transfers[1].remaining_collateral < transfers[1].initial_collateral
    /\ transfers[2].prev_receipt_id = 0
    /\ transfers[2].initial_collateral = MaxCollateral

\* C9: the release of a commitment whose transfer was removed after emitting
\* it leaves the pool as it is.
C9_ReleaseAfterRemoveDropped ==
    [][\A c \in DOMAIN borrowed, status \in QueryStatus :
          (release(c, status) /\ ~Current(c)) => transfers' = transfers]_vars

\* C10: release with Success of a commitment of an installed transfer leaves
\* remaining_collateral (and every other field and transfer) as it is and
\* appends to the cache one receipt with the commitment's receipt id and
\* unlocked_fee = fee; the unlocked fees of the caches grow by the fee, where
\* the commit that emitted a commitment took its unlocked_fee out of them: a
\* commit of f followed by release with Success adds f to them.
C10_SuccessUnlocks ==
    [][/\ \A c \in DOMAIN borrowed :
             (release(c, "Success") /\ Installed(c.bytes.vector_transfer_id)) =>
                 LET k == position(transfers, c.bytes.vector_transfer_id)
                     t == transfers[k]
                 IN  /\ transfers' = [transfers EXCEPT ![k] =
                            [t EXCEPT !.receipt_cache =
                                Append(@, [receipt_id |-> c.bytes.receipt_id,
                                           unlocked_fee |-> c.bytes.fee])]]
                     /\ transfers'[k].remaining_collateral = t.remaining_collateral
                     /\ known_unlocked_fees(transfers')
                            = known_unlocked_fees(transfers) + c.bytes.fee
       /\ \A locked_fee \in Fees :
             (commit(locked_fee) /\ ret'.kind = "ReceiptBorrow") =>
                 \E c \in DOMAIN borrowed' :
                     /\ borrowed' = borrowed (+) SetToBag({c})
                     /\ c.bytes.fee = c.bytes.unlocked_fee + locked_fee
                     /\ known_unlocked_fees(transfers')
                            = known_unlocked_fees(transfers) - c.bytes.unlocked_fee
      ]_vars

\* A commit of a fee above 0 on a receipt that carried unlocked fee was
\* released with Success.
C10_Witness ==
    /\ ret.kind = "Unit"
    /\ \E k \in Indexes :
           /\ transfers[k].remaining_collateral + 2 = transfers[k].initial_collateral
           /\ transfers[k].receipt_cache
                  = <<[receipt_id |-> 1, unlocked_fee |-> 2]>>
           /\ OwnOutstanding(transfers[k]) = {}
           /\ absorbed[transfers[k].vector_transfer_id] = 0

\* C11: a release with Failure of a commitment that an installed transfer
\* emitted adds locked_fee = fee - unlocked_fee to that transfer's
\* remaining_collateral and appends to its cache one receipt with the
\* commitment's receipt id and its original unlocked_fee; no other field and
\* no other transfer changes.
C11_FailureReturnsCollateral ==
    [][\A c \in DOMAIN borrowed :
          (release(c, "Failure") /\ Current(c)) =>
              LET k == position(transfers, c.bytes.vector_transfer_id)
                  t == transfers[k]
              IN  /\ ret' = Unit
                  /\ transfers' = [transfers EXCEPT ![k] =
                         [t EXCEPT
                             !.remaining_collateral
                                 = @ + (c.bytes.fee - c.bytes.unlocked_fee),
                             !.receipt_cache
                                 = Append(@, [receipt_id |-> c.bytes.receipt_id,
                                              unlocked_fee |-> c.bytes.unlocked_fee])]]
      ]_vars

\* C12: for every pool state and every commitment in flight, release with
\* Unknown and release with Failure give the same pool and the same result.
C12_UnknownIsFailure ==
    \A c \in DOMAIN borrowed :
        release_outcome(transfers, c.bytes, "Unknown")
            = release_outcome(transfers, c.bytes, "Failure")

\* A commitment of an installed transfer is in flight whose release changes
\* the pool, and differently for Success than for Failure.
C12_Witness ==
    \E c \in DOMAIN borrowed :
        /\ Current(c)
        /\ c.bytes.unlocked_fee > 0
        /\ c.bytes.fee > c.bytes.unlocked_fee
        /\ release_outcome(transfers, c.bytes, "Failure").transfers # transfers
        /\ release_outcome(transfers, c.bytes, "Failure")
               # release_outcome(transfers, c.bytes, "Success")

\* C13: a commit that returns InsufficientCollateral, for want of collateral
\* or of receipt ids, leaves every field of every transfer as it was.
C13_FailedCommitChangesNothing ==
    [][\A locked_fee \in Fees :
          (commit(locked_fee) /\ ret'.kind = "InsufficientCollateral") =>
              /\ transfers' = transfers
              /\ borrowed' = borrowed]_vars

\* A commit failed on the only transfer, which could pay any fee but has an
\* empty cache and no receipt id left.
C13_Witness ==
    /\ ret.kind = "InsufficientCollateral"
    /\ Len(transfers) = 1
    /\ Exhausted(transfers[1])
    /\ transfers[1].remaining_collateral = MaxCollateral
    /\ transfers[1].initial_collateral = MaxCollateral

\* The collateral in use: the sum of initial - remaining over the transfers.
RECURSIVE Used(_)
Used(ts) ==
    IF ts = <<>> THEN 0
    ELSE (Head(ts).initial_collateral - Head(ts).remaining_collateral)
             + Used(Tail(ts))

Min(a, b) == IF a <= b THEN a ELSE b

\* C14: in every pool state that calls which returned have reached,
\* recommended_collateral returns min(2^256 - 1, 2 * the sum over the installed
\* transfers of (initial_collateral - remaining_collateral)), where no
\* subtraction underflows.
C14_RecommendedCollateralDefined ==
    Running =>
        /\ \A k \in Indexes :
               transfers[k].initial_collateral >= transfers[k].remaining_collateral
        /\ recommended_collateral(transfers)
               = U256(Min(U256_MAX, 2 * Used(transfers)))

\* The ids of the installed transfers.
InstalledIds(ts) == {ts[k].vector_transfer_id : k \in 1..Len(ts)}

\* The installed transfer with this id, as a set (empty when there is none).
TransferOf(ts, id) == {ts[k] : k \in {j \in 1..Len(ts) : ts[j].vector_transfer_id = id}}

\* C15: remove_transfer(T) of an installed T leaves no transfer with id T and
\* leaves every other transfer installed with its fields unchanged, so that
\* has_collateral_for and commit count only the others (a commit of a fee
\* that none of the others can pay fails); remove_transfer of an id that is
\* not installed leaves the pool unchanged; and every commitment a commit
\* emits carries the id and the key of a transfer installed at that time (none
\* of a removed one).
C15_RemovedCannotPay ==
    /\ [][\A id \in TransferIds :
             remove_transfer(id) =>
                 /\ ~Installed(id) => transfers' = transfers
                 /\ id \notin InstalledIds(transfers')
                 /\ Len(transfers') = Cardinality(InstalledIds(transfers) \ {id})
                 /\ \A other \in InstalledIds(transfers) \ {id} :
                        TransferOf(transfers', other) = TransferOf(transfers, other)
                 /\ \A locked_fee \in Fees :
                        /\ has_collateral_for(transfers', locked_fee) =>
                               \E k \in Indexes :
                                   /\ transfers[k].vector_transfer_id # id
                                   /\ transfers[k].remaining_collateral >= locked_fee
                        /\ (\A k \in Indexes :
                                transfers[k].vector_transfer_id # id
                                    => transfers[k].remaining_collateral < locked_fee)
                               => \A index \in gen_range(transfers', locked_fee) :
                                      commit_outcome(transfers', locked_fee, index).ret
                                          = BorrowFail]_vars
    /\ [][\A locked_fee \in Fees :
             commit(locked_fee) =>
                 \A c \in DOMAIN borrowed' :
                     borrowed'[c] > (IF c \in DOMAIN borrowed THEN borrowed[c] ELSE 0)
                         => /\ Installed(c.bytes.vector_transfer_id)
                            /\ c.install = installs[c.bytes.vector_transfer_id]
                            /\ c.bytes.signature.signer
                                   = transfers[position(transfers,
                                         c.bytes.vector_transfer_id)].signer]_vars
    /\ [](\A i, j \in Indexes :
              transfers[i].vector_transfer_id = transfers[j].vector_transfer_id
                  => i = j)

\* A transfer that has a commitment in flight was removed and not added
\* again, and a commit then failed on the transfer that is left, which has
\* collateral and receipt ids.
C15_Witness ==
    /\ ret.kind = "InsufficientCollateral"
    /\ Len(transfers) = 1
    /\ transfers[1].remaining_collateral = 1
    /\ transfers[1].prev_receipt_id = 0
    /\ \E id \in TransferIds :
           /\ ~Installed(id)
           /\ installs[id] = 1
           /\ \E c \in DOMAIN borrowed : c.bytes.vector_transfer_id = id

(***************************************************************************)
(* Notions the properties of receipts_to_voucher use.                      *)
(***************************************************************************)
\* receipts_to_voucher has returned.
Returned == voucher.kind = "Call" /\ voucher.result # Pending

Records == voucher.data.records

\* The length of the data is a multiple of the record size.
WholeRecords == (Len(Records) * SIZE + voucher.data.extra) % SIZE = 0

\* A receipt id as a number (its bytes read big-endian).
IdValue(receipt_id) == from_big_endian(receipt_id)

\* The id before record i: 0 before the first.
IdBefore(i) == IF i = 1 THEN 0 ELSE IdValue(Records[i - 1].receipt_id)

\* The records whose id is not greater than the id before.
Unordered == {i \in 1..Len(Records) : IdBefore(i) >= IdValue(Records[i].receipt_id)}

\* The record carries the signature of key over (allocation_id, its payment,
\* its receipt id).
ValidlySigned(chunk, allocation_id, key) ==
    chunk.signature = Signed(key, <<allocation_id, chunk.payment, chunk.receipt_id>>)

\* Every record is signed by the allocation signer for the allocation.
AllSignedFor(allocation_id) ==
    \A i \in 1..Len(Records) :
        ValidlySigned(Records[i], allocation_id, voucher.allocation_signer)

RECURSIVE SumPayments(_)
SumPayments(chunks) ==
    IF chunks = <<>> THEN 0
    ELSE from_big_endian(Head(chunks).payment) + SumPayments(Tail(chunks))

\* The result is the voucher of the allocation for total, signed by the
\* voucher signer.
IsVoucher(result, total) ==
    /\ result.kind = "Ok"
    /\ result.allocation_id = voucher.allocation_id
    /\ Len(result.total) = U256_BITS
    /\ from_big_endian(result.total) = total
    /\ result.signature
           = Signed(voucher.voucher_signer, <<voucher.allocation_id, result.total>>)

\* C16, as stated: for data of whole records with strictly ascending ids, each
\* signed by the allocation signer over (allocation_id, payment, receipt_id),
\* and payments not all zero, receipts_to_voucher returns
\* allocation_id || total || signature of the voucher signer over
\* (allocation_id || total), where total is the sum of the payments.
C16_VoucherTotalIsSum ==
    (/\ Returned
     /\ WholeRecords
     /\ Unordered = {}
     /\ AllSignedFor(voucher.allocation_id)
     /\ SumPayments(Records) > 0)
        => IsVoucher(voucher.result, SumPayments(Records))

\* C16, amended: ... where total is the sum of the payments, or 2^256 - 1 when
\* the sum is larger.
C16_VoucherTotalIsSaturatedSum ==
    (/\ Returned
     /\ WholeRecords
     /\ Unordered = {}
     /\ AllSignedFor(voucher.allocation_id)
     /\ SumPayments(Records) > 0)
        => IsVoucher(voucher.result, Min(U256_MAX, SumPayments(Records)))

\* A voucher was returned for two receipts whose payments add up to more than
\* the largest U256, and one for two receipts whose payments do not.
C16_Witness ==
    /\ Returned
    /\ Len(Records) = 2
    /\ voucher.result.kind = "Ok"
    /\ SumPayments(Records) > U256_MAX
    /\ from_big_endian(Records[1].payment) < from_big_endian(Records[2].payment)

\* C17, as stated: every input whose receipt ids are not strictly ascending
\* (a duplicate, a descending pair, a first id of zero) yields
\* UnorderedReceipts.
C17_UnorderedRejected ==
    (Returned /\ Unordered # {})
        => voucher.result = VoucherError("UnorderedReceipts")

\* C17, amended: every input whose receipt ids are not strictly ascending
\* yields an error; the error is UnorderedReceipts when the data consists of
\* whole records and every record before the first whose id is not greater
\* than the id before it is signed by the allocation signer over
\* (allocation_id, payment, receipt_id).
C17_UnorderedRejectedInTurn ==
    (Returned /\ Unordered # {}) =>
        /\ voucher.result.kind = "Err"
        /\ (/\ WholeRecords
            /\ \A j \in 1..Len(Records) :
                   (\A i \in Unordered : j < i)
                       => ValidlySigned(Records[j], voucher.allocation_id,
                                        voucher.allocation_signer))
               => voucher.result = VoucherError("UnorderedReceipts")

\* UnorderedReceipts was returned for a validly signed receipt followed by a
\* receipt with the same id and a malformed signature.
C17_Witness ==
    /\ Returned
    /\ voucher.result = VoucherError("UnorderedReceipts")
    /\ Len(Records) = 2
    /\ ValidlySigned(Records[1], voucher.allocation_id, voucher.allocation_signer)
    /\ Records[1].receipt_id # ReceiptId_default
    /\ Records[2].receipt_id = Records[1].receipt_id
    /\ Records[2].signature = MalformedSignature

\* C18: every voucher returned has a total above 0; data of whole records
\* that pass the ordering and signature checks and whose payments are all 0
\* (the empty data too) yields NoValue.
C18_NoZeroVoucher ==
    Returned =>
        /\ voucher.result.kind = "Ok" => from_big_endian(voucher.result.total) > 0
        /\ (/\ WholeRecords
            /\ Unordered = {}
            /\ AllSignedFor(voucher.allocation_id)
            /\ SumPayments(Records) = 0)
               => voucher.result = VoucherError("NoValue")

\* NoValue was returned for two validly signed receipts in order that pay 0.
C18_Witness ==
    /\ Returned
    /\ voucher.result = VoucherError("NoValue")
    /\ Len(Records) = 2
    /\ AllSignedFor(voucher.allocation_id)
    /\ SumPayments(Records) = 0

\* C19: data whose length is not a multiple of the record size yields
\* InvalidData, whatever its whole records are.
C19_PartialRecordRejected ==
    (Returned /\ ~WholeRecords) => voucher.result = VoucherError("InvalidData")

\* InvalidData was returned for data that ends in a part of a record, whose
\* whole records are out of order and signed by the wrong key.
C19_Witness ==
    /\ Returned
    /\ voucher.result = VoucherError("InvalidData")
    /\ voucher.data.extra > 0
    /\ Len(Records) = 2
    /\ Unordered = {1, 2}
    /\ \A i \in 1..Len(Records) :
           /\ Records[i].signature # MalformedSignature
           /\ Records[i].signature.key # voucher.allocation_signer

\* C20: whole records in strictly ascending order, at least one, each signed by
\* the allocation signer for an allocation other than the allocation_id of
\* the call, yield InvalidSignature.
C20_AllocationBound ==
    \A a \in Addresses :
        (/\ Returned
         /\ WholeRecords
         /\ Len(Records) > 0
         /\ Unordered = {}
         /\ AllSignedFor(a)
         /\ a # voucher.allocation_id)
            => voucher.result = VoucherError("InvalidSignature")

\* InvalidSignature was returned for two receipts of value, in order, signed
\* by the allocation signer for another allocation.
C20_Witness ==
    /\ Returned
    /\ voucher.result = VoucherError("InvalidSignature")
    /\ Len(Records) = 2
    /\ WholeRecords
    /\ Unordered = {}
    /\ \E a \in Addresses \ {voucher.allocation_id} : AllSignedFor(a)
    /\ \A i \in 1..Len(Records) : from_big_endian(Records[i].payment) > 0

\* C21: every commitment in flight that an installed transfer emitted carries
\* unlocked_fee <= fee <= initial_collateral of that transfer (so neither
\* unlocked_fee + locked_fee in commit overflows nor fee - unlocked_fee in
\* release underflows).
C21_FeeBounded ==
    \A k \in Indexes :
        \A c \in OwnOutstanding(transfers[k]) :
            /\ c.bytes.unlocked_fee <= c.bytes.fee
            /\ c.bytes.fee <= transfers[k].initial_collateral
            /\ c.bytes.fee <= U256_MAX

\* How often x occurs in the sequence.
CountIn(seq, x) == Cardinality({i \in DOMAIN seq : seq[i] = x})

\* The one commitment a commit step added to those in flight.
Emitted(c) == borrowed' = borrowed (+) SetToBag({c})

\* C22: a commit that returns a commitment takes, when the cache of the
\* selected transfer is empty, the id prev_receipt_id + 1 with unlocked_fee 0
\* and advances prev_receipt_id by 1; when the cache is not empty it takes
\* exactly one receipt out of the cache, emits its id and its unlocked_fee, and
\* leaves prev_receipt_id as it is; and a commit on a transfer with a cache
\* that is not empty does not return InsufficientCollateral.
C22_SlotRecycling ==
    [][\A locked_fee \in Fees :
          (commit(locked_fee) /\ CanPay(transfers, locked_fee) # {}) =>
              LET k == LeastFit(transfers, locked_fee)
                  t == transfers[k]
                  u == transfers'[k]
              IN  /\ Len(t.receipt_cache) > 0 => ret'.kind # "InsufficientCollateral"
                  /\ ret'.kind = "ReceiptBorrow" =>
                         \E c \in DOMAIN borrowed' :
                             /\ Emitted(c)
                             /\ c.bytes.vector_transfer_id = t.vector_transfer_id
                             /\ IF Len(t.receipt_cache) = 0
                                THEN /\ c.bytes.receipt_id = t.prev_receipt_id + 1
                                     /\ c.bytes.unlocked_fee = 0
                                     /\ u.prev_receipt_id = t.prev_receipt_id + 1
                                     /\ u.receipt_cache = <<>>
                                ELSE LET lent == [receipt_id |-> c.bytes.receipt_id,
                                                  unlocked_fee |-> c.bytes.unlocked_fee]
                                     IN  /\ CountIn(t.receipt_cache, lent) > 0
                                         /\ Len(u.receipt_cache)
                                                = Len(t.receipt_cache) - 1
                                         /\ \A i \in DOMAIN t.receipt_cache :
                                                CountIn(u.receipt_cache,
                                                        t.receipt_cache[i])
                                                  = CountIn(t.receipt_cache,
                                                            t.receipt_cache[i])
                                                    - (IF t.receipt_cache[i] = lent
                                                       THEN 1 ELSE 0)
                                         /\ u.prev_receipt_id = t.prev_receipt_id]_vars

\* A transfer with no receipt id left has lent one of the two receipts of
\* its cache, the one that carries unlocked fee, and kept the other.
C22_Witness ==
    /\ ret.kind = "ReceiptBorrow"
    /\ \E k \in Indexes :
           /\ transfers[k].prev_receipt_id = MAX_RECEIPT_ID
           /\ Len(transfers[k].receipt_cache) = 1
           /\ transfers[k].receipt_cache[1].unlocked_fee = 0
           /\ \E c \in OwnOutstanding(transfers[k]) :
                  /\ c.bytes.unlocked_fee > 0
                  /\ c.bytes.receipt_id # transfers[k].receipt_cache[1].receipt_id
                  /\ BagCardinality(borrowed) = 1

C26_FullAccounting ==
    \A k \in Indexes :
        installs[transfers[k].vector_transfer_id] = 1 =>
            transfers[k].remaining_collateral
              + SumField(OwnOutstanding(transfers[k]), "fee")
              + SumUnlocked(transfers[k].receipt_cache)
            = transfers[k].initial_collateral

\* A transfer installed once has a receipt with unlocked fee in its cache and
\* a commitment in flight, and another whose commitment carries unlocked fee.
C26_Witness ==
    /\ Len(transfers) = 2
    /\ \A k \in Indexes : installs[transfers[k].vector_transfer_id] = 1
    /\ \E k \in Indexes :
           /\ SumUnlocked(transfers[k].receipt_cache) > 0
           /\ OwnOutstanding(transfers[k]) # {}
    /\ \E c \in DOMAIN borrowed :
           c.bytes.unlocked_fee > 0 /\ c.bytes.fee > c.bytes.unlocked_fee

\* C27: between operations every installed transfer has a
\* low_collateral_threshold of initial_collateral / 4 or of 0 and a
\* remaining_collateral that is not below it (so low_before is false in the
\* commit that comes next).
C27_ThresholdLatch ==
    Running =>
        \A k \in Indexes :
            /\ transfers[k].low_collateral_threshold
                   \in {transfers[k].initial_collateral \div 4, 0}
            /\ transfers[k].remaining_collateral
                   >= transfers[k].low_collateral_threshold

\* A transfer whose warning went out has its collateral back, above the
\* quarter, with the threshold at 0; before, the threshold was the quarter.
C27_Witness ==
    /\ Running
    /\ Len(transfers) = 1
    /\ transfers[1].initial_collateral = LatchCollateral
    /\ transfers[1].initial_collateral \div 4 > 0
    /\ transfers[1].low_collateral_threshold = 0
    /\ transfers[1].remaining_collateral = LatchCollateral
    /\ transfers[1].prev_receipt_id = 1
    /\ warnings[transfers[1].vector_transfer_id] = 1

\* C24: when the payments of data of whole records, in order and signed by
\* the allocation signer for the allocation, add up to more than the largest
\* U256, receipts_to_voucher returns a voucher whose total is the largest U256.
C24_TotalSaturates ==
    (/\ Returned
     /\ WholeRecords
     /\ Unordered = {}
     /\ AllSignedFor(voucher.allocation_id)
     /\ SumPayments(Records) > U256_MAX)
        => /\ IsVoucher(voucher.result, U256_MAX)
           /\ voucher.result.total = [i \in 1..U256_BITS |-> 1]

\* A voucher was returned for two receipts of the same payment, which is more
\* than half of the largest U256.
C24_Witness ==
    /\ Returned
    /\ voucher.result.kind = "Ok"
    /\ Len(Records) = 2
    /\ Records[1].payment = Records[2].payment
    /\ 2 * from_big_endian(Records[1].payment) > U256_MAX

(***************************************************************************)
(* Notions the properties of the row iterator use.                         *)
(***************************************************************************)
\* rows returned an iterator, and the iterator has returned None.
Ended == zkp.kind = "Rows" /\ zkp.result.kind = "Ok" /\ zkp.ended

\* The receipts of the input with this id.
InputWith(id) == {zkp.input[i] : i \in {j \in DOMAIN zkp.input : zkp.input[j].id = id}}

\* C25: the items an iterator returned by rows has yielded are those of the
\* ids 0, 1, ... in this order, the receipt of the input for an id that the
\* input holds and the null receipt (payment 0) for an id it does not hold;
\* when the iterator ends they are MAX_ID items.
C25_RowsOrderedHolesFilled ==
    (zkp.kind = "Rows" /\ zkp.result.kind = "Ok") =>
        /\ Len(zkp.items) <= MAX_ID
        /\ zkp.ended => Len(zkp.items) = MAX_ID
        /\ \A i \in 1..Len(zkp.items) :
               /\ zkp.items[i].id = i - 1
               /\ IF InputWith(i - 1) # {}
                  THEN zkp.items[i] \in InputWith(i - 1)
                  ELSE /\ zkp.items[i].payment_amount = 0
                       /\ zkp.items[i] = [id |-> i - 1, payment_amount |-> 0,
                                          signature |-> <<>>]

\* The iterator ended for three receipts of value given in ascending order
\* of their ids, with a hole between them.
C25_Witness ==
    /\ Ended
    /\ Len(zkp.input) = 3
    /\ zkp.input[1].id < zkp.input[2].id
    /\ zkp.input[2].id + 1 < zkp.input[3].id
    /\ zkp.input[3].id < MAX_ID
    /\ \A i \in 1..3 : zkp.input[i].payment_amount > 0

\* C28: when the iterator that rows returned has ended, every receipt of the
\* input was yielded exactly once; an input with an id above MAX_ID is
\* rejected with InvalidID, and an input with two equal ids (none above
\* MAX_ID) with DuplicateID.
C28_NoReceiptLost ==
    /\ Ended =>
           \A i \in DOMAIN zkp.input :
               Cardinality({j \in DOMAIN zkp.items : zkp.items[j] = zkp.input[i]}) = 1
    /\ zkp.kind = "Rows" =>
           /\ (\E i \in DOMAIN zkp.input : zkp.input[i].id > MAX_ID)
                  => zkp.result = [kind |-> "Err", error |-> "InvalidID"]
           /\ (/\ \A i \in DOMAIN zkp.input : zkp.input[i].id <= MAX_ID
               /\ \E i, j \in DOMAIN zkp.input :
                      i # j /\ zkp.input[i].id = zkp.input[j].id)
                  => zkp.result = [kind |-> "Err", error |-> "DuplicateID"]

=============================================================================
